---- MODULE Spec2Model ----
(***************************************************************************)
(* JNI boundary adapter of rulestone (java/src/main/c/wrapper.c).          *)
(*                                                                         *)
(* The three entry points NewRuleEngine, Match and GetRuleMetadata are      *)
(* modelled statement by statement.  Every host thread runs one call at a  *)
(* time; a call owns its C locals.  The native heap (malloc/free) and the  *)
(* engine table of the Go library are the only state shared by calls.      *)
(*                                                                         *)
(* JNI calls that allocate (NewIntArray, FindClass, GetMethodID, NewObject, *)
(* NewStringUTF, CallObjectMethod) may fail: they return NULL and leave an *)
(* exception pending.  The wrapper checks no result, so a later JNI call   *)
(* runs with a pending exception / NULL argument, which JNI leaves         *)
(* undefined: the model lets such a call either crash the process or       *)
(* return without effect.  When a native method returns with an exception  *)
(* pending the host sees the exception, not the returned value.            *)
(***************************************************************************)
EXTENDS Integers, Sequences, FiniteSets, TLC

\* ---------------------------------------------------------------- bounds
MaxLen == 2
MaxPairs == 2
MaxCalls == 3
ConcLen == 1
ConcPairs == 1
ConcCalls == 2

Threads == {1, 2}

\* ------------------------------------------------------------- constants
NULL == 0

\* implementation-defined creation-failure sentinel of the native engine
FailedHandle == -1

\* one address per leaked header plus the allocations of two calls in flight
Addr == 1 .. (MaxCalls + 2 * (2 + 2 * MaxPairs))

\* rule identifiers and NUL-terminated native strings the engine can emit
RuleIds == {7, 99}
Keys == {<<115, 0>>, <<111, 0>>}
Vals == {<<104, 0>>, <<108, 0>>}
Pairs == {<<k, v>> : k \in Keys, v \in Vals}

RECURSIVE SeqsUpTo(_, _)
SeqsUpTo(S, n) ==
    IF n = 0 THEN {<<>>}
    ELSE LET shorter == SeqsUpTo(S, n - 1)
         IN  shorter \cup {Append(s, x) : s \in {q \in shorter : Len(q) = n - 1}, x \in S}

\* --------------------------------------------------------------- state
VARIABLES
    pc,             \* per thread: statement the call is at
    op,             \* per thread: entry point being executed
    log,            \* per thread: calls made by the current call, in order
    nat,            \* per thread: what the native primitive returned
    recv,           \* per thread: native allocations handed to the current call
    matches,        \* per thread: local `matches` of Match
    metadata,       \* per thread: local `metadata` of GetRuleMetadata
    result,         \* per thread: local `result` of Match
    hashMap,        \* per thread: local `hashMap` of GetRuleMetadata
    key,            \* per thread: local `key` of the loop body
    value,          \* per thread: local `value` of the loop body
    i,              \* per thread: loop index of GetRuleMetadata
    exc,            \* per thread: a host exception is pending
    ret,            \* per thread: value returned to the host
    rule_engine_id, \* per thread: local `rule_engine_id` of NewRuleEngine
    heap,           \* native heap: address -> cell
    owner,          \* address -> thread whose call received the allocation
    engines,        \* handle table inside the native engine
    ncalls,         \* adapter calls started so far
    crashed,        \* the process died on undefined behaviour
    memErr,         \* memory errors observed on the native heap
    cfg             \* run shape: host threads, input sizes, host failures

vars == <<pc, op, log, nat, recv, matches, metadata, result, hashMap, key, value,
          i, exc, ret, rule_engine_id, heap, owner, engines, ncalls, crashed,
          memErr, cfg>>

\* ------------------------------------------------------------ host values
EmptyMap == [x \in {} |-> <<>>]
NullRef == [k |-> "null", n |-> 0, a |-> <<>>, m |-> EmptyMap]
IntRef(h) == [k |-> "int", n |-> h, a |-> <<>>, m |-> EmptyMap]
ArrayRef(s) == [k |-> "intArray", n |-> 0, a |-> s, m |-> EmptyMap]
StringRef(s) == [k |-> "String", n |-> 0, a |-> s, m |-> EmptyMap]
MapRef(f) == [k |-> "HashMap", n |-> 0, a |-> <<>>, m |-> f]
RuleMetadataRef(f) == [k |-> "RuleMetadata", n |-> 0, a |-> <<>>, m |-> f]

\* ------------------------------------------------------------ native heap
FreeCell == [k |-> "free", p |-> NULL, n |-> 0, d |-> <<>>]
MatchesCell(buf, len) == [k |-> "Matches", p |-> buf, n |-> len, d |-> <<>>]
IntsCell(ids) == [k |-> "ints", p |-> NULL, n |-> 0, d |-> ids]
MetadataCell(arr, size) == [k |-> "Metadata", p |-> arr, n |-> size, d |-> <<>>]
PtrsCell(ptrs) == [k |-> "ptrs", p |-> NULL, n |-> 0, d |-> ptrs]
CharsCell(bytes) == [k |-> "chars", p |-> NULL, n |-> 0, d |-> bytes]

Live(h, a) == a \in Addr /\ h[a].k # "free"

RECURSIVE Pick(_, _)
Pick(S, n) ==
    IF n = 0 THEN <<>>
    ELSE LET m == CHOOSE x \in S : \A y \in S : x <= y
         IN  <<m>> \o Pick(S \ {m}, n - 1)

\* malloc: the n lowest free addresses
Malloc(h, n) == Pick({a \in Addr : h[a].k = "free"}, n)

\* free(a): the cell is returned to the allocator; free(NULL) does nothing
Free(h, a) == IF a \in Addr THEN [h EXCEPT ![a] = FreeCell] ELSE h

FreeErr(h, own, a, t) ==
    IF a = NULL THEN {}
    ELSE IF ~Live(h, a) THEN {"double_free"}
    ELSE IF own[a] # t THEN {"foreign_free"}
    ELSE {}

\* a load through pointer a
ReadErr(h, a) == IF Live(h, a) THEN {} ELSE {"use_after_free"}

Load(h, a) == IF a \in Addr THEN h[a] ELSE FreeCell

\* ------------------------------------------------------------------ log
Ev(name, a) == <<name, a>>
Logged(t, name, a) == [log EXCEPT ![t] = Append(@, Ev(name, a))]
Count(l, name) == Cardinality({j \in 1 .. Len(l) : l[j][1] = name})
CountAt(l, name, a) == Cardinality({j \in 1 .. Len(l) : l[j] = Ev(name, a)})
Names(l) == [j \in 1 .. Len(l) |-> l[j][1]]

NoNat == [null |-> TRUE, h |-> 0, ids |-> <<>>, pairs |-> <<>>]

\* ----------------------------------------------------------------- Init
\* one host thread, every input, host-side failures
SeqCfg == [threads |-> {1}, maxLen |-> MaxLen, maxPairs |-> MaxPairs,
           maxCalls |-> MaxCalls, hostFail |-> TRUE,
           ids |-> RuleIds, pairs |-> Pairs]
\* two host threads; the contents of the native results play no part in who
\* frees what, so one identifier and one key/value pair are used
ConcCfg == [threads |-> Threads, maxLen |-> ConcLen, maxPairs |-> ConcPairs,
            maxCalls |-> ConcCalls, hostFail |-> FALSE,
            ids |-> {7}, pairs |-> {<<<<115, 0>>, <<104, 0>>>>}]

InitWith(c) ==
    /\ cfg = c
    /\ pc = [t \in Threads |-> "idle"]
    /\ op = [t \in Threads |-> "none"]
    /\ log = [t \in Threads |-> <<>>]
    /\ nat = [t \in Threads |-> NoNat]
    /\ recv = [t \in Threads |-> {}]
    /\ matches = [t \in Threads |-> NULL]
    /\ metadata = [t \in Threads |-> NULL]
    /\ result = [t \in Threads |-> NullRef]
    /\ hashMap = [t \in Threads |-> NullRef]
    /\ key = [t \in Threads |-> NullRef]
    /\ value = [t \in Threads |-> NullRef]
    /\ i = [t \in Threads |-> 0]
    /\ exc = [t \in Threads |-> FALSE]
    /\ ret = [t \in Threads |-> NullRef]
    /\ rule_engine_id = [t \in Threads |-> 0]
    /\ heap = [a \in Addr |-> FreeCell]
    /\ owner = [a \in Addr |-> 0]
    /\ engines = {}
    /\ ncalls = 0
    /\ crashed = FALSE
    /\ memErr = {}

Init == InitWith(SeqCfg)
InitConc == InitWith(ConcCfg)

\* a thread may take a step while the process is alive
Running(t) == t \in cfg.threads /\ ~crashed

\* ------------------------------------------------------ entering a call
Enter(t, name, first) ==
    /\ Running(t)
    /\ pc[t] = "idle"
    /\ ncalls < cfg.maxCalls
    /\ ncalls' = ncalls + 1
    /\ op' = [op EXCEPT ![t] = name]
    /\ pc' = [pc EXCEPT ![t] = first]
    /\ UNCHANGED <<log, nat, recv, matches, metadata, result, hashMap, key, value,
                   i, exc, ret, rule_engine_id, heap, owner, engines, crashed,
                   memErr, cfg>>

\* return to the host: the frame of the call is gone
Leave(t) ==
    /\ Running(t)
    /\ pc[t] = "done"
    /\ pc' = [pc EXCEPT ![t] = "idle"]
    /\ op' = [op EXCEPT ![t] = "none"]
    /\ log' = [log EXCEPT ![t] = <<>>]
    /\ nat' = [nat EXCEPT ![t] = NoNat]
    /\ recv' = [recv EXCEPT ![t] = {}]
    /\ matches' = [matches EXCEPT ![t] = NULL]
    /\ metadata' = [metadata EXCEPT ![t] = NULL]
    /\ result' = [result EXCEPT ![t] = NullRef]
    /\ hashMap' = [hashMap EXCEPT ![t] = NullRef]
    /\ key' = [key EXCEPT ![t] = NullRef]
    /\ value' = [value EXCEPT ![t] = NullRef]
    /\ i' = [i EXCEPT ![t] = 0]
    /\ exc' = [exc EXCEPT ![t] = FALSE]
    /\ ret' = [ret EXCEPT ![t] = NullRef]
    /\ rule_engine_id' = [rule_engine_id EXCEPT ![t] = 0]
    /\ UNCHANGED <<heap, owner, engines, ncalls, crashed, memErr, cfg>>

\* ------------------------------------------------------- NewRuleEngine
CallNewRuleEngine(t) == Enter(t, "NewRuleEngine", "ne_get")

\* const char *rules_path = (*env)->GetStringUTFChars(env, jstr, 0);
NE_GetChars(t) ==
    /\ Running(t)
    /\ pc[t] = "ne_get"
    /\ log' = Logged(t, "GetStringUTFChars", NULL)
    /\ pc' = [pc EXCEPT ![t] = "ne_native"]
    /\ UNCHANGED <<op, nat, recv, matches, metadata, result, hashMap, key, value,
                   i, exc, ret, rule_engine_id, heap, owner, engines, ncalls,
                   crashed, memErr, cfg>>

\* the create primitive: a new handle in the engine table, or the sentinel
NativeNewRuleEngine(tbl) == {Cardinality(tbl), FailedHandle}

\* variant: the create primitive is called again when it returned the sentinel
NE_Native_Retry(t) ==
    /\ Running(t)
    /\ pc[t] = "ne_native"
    /\ \E h1 \in NativeNewRuleEngine(engines) :
          IF h1 # FailedHandle
          THEN /\ rule_engine_id' = [rule_engine_id EXCEPT ![t] = h1]
               /\ nat' = [nat EXCEPT ![t] = [NoNat EXCEPT !.null = FALSE, !.h = h1]]
               /\ engines' = engines \cup {h1}
               /\ log' = Logged(t, "NewRuleEngine", NULL)
          ELSE \E h2 \in NativeNewRuleEngine(engines) :
               /\ rule_engine_id' = [rule_engine_id EXCEPT ![t] = h2]
               /\ nat' = [nat EXCEPT ![t] = [NoNat EXCEPT !.null = FALSE, !.h = h2]]
               /\ engines' = IF h2 = FailedHandle THEN engines ELSE engines \cup {h2}
               /\ log' = [log EXCEPT ![t] = @ \o <<Ev("NewRuleEngine", NULL),
                                                   Ev("NewRuleEngine", NULL)>>]
    /\ pc' = [pc EXCEPT ![t] = "ne_release"]
    /\ UNCHANGED <<op, recv, matches, metadata, result, hashMap, key, value,
                   i, exc, ret, heap, owner, ncalls, crashed, memErr, cfg>>

\* int rule_engine_id = NewRuleEngine(rules_path);
NE_Native(t) ==
    /\ Running(t)
    /\ pc[t] = "ne_native"
    /\ \E h \in NativeNewRuleEngine(engines) :
          /\ rule_engine_id' = [rule_engine_id EXCEPT ![t] = h]
          /\ nat' = [nat EXCEPT ![t] = [NoNat EXCEPT !.null = FALSE, !.h = h]]
          /\ engines' = IF h = FailedHandle THEN engines ELSE engines \cup {h}
    /\ log' = Logged(t, "NewRuleEngine", NULL)
    /\ pc' = [pc EXCEPT ![t] = "ne_release"]
    /\ UNCHANGED <<op, recv, matches, metadata, result, hashMap, key, value,
                   i, exc, ret, heap, owner, ncalls, crashed, memErr, cfg>>

\* (*env)->ReleaseStringUTFChars(env, jstr, rules_path);
NE_Release(t) ==
    /\ Running(t)
    /\ pc[t] = "ne_release"
    /\ log' = Logged(t, "ReleaseStringUTFChars", NULL)
    /\ pc' = [pc EXCEPT ![t] = "ne_return"]
    /\ UNCHANGED <<op, nat, recv, matches, metadata, result, hashMap, key, value,
                   i, exc, ret, rule_engine_id, heap, owner, engines, ncalls,
                   crashed, memErr, cfg>>

\* return rule_engine_id;
NE_Return(t) ==
    /\ Running(t)
    /\ pc[t] = "ne_return"
    /\ ret' = [ret EXCEPT ![t] = IntRef(rule_engine_id[t])]
    /\ log' = Logged(t, "return", NULL)
    /\ pc' = [pc EXCEPT ![t] = "done"]
    /\ UNCHANGED <<op, nat, recv, matches, metadata, result, hashMap, key, value,
                   i, exc, rule_engine_id, heap, owner, engines, ncalls,
                   crashed, memErr, cfg>>

\* --------------------------------------------------------------- Match
CallMatch(t) == Enter(t, "Match", "m_get")

\* const char *input = (*env)->GetStringUTFChars(env, jstr, 0);
M_GetChars(t) ==
    /\ Running(t)
    /\ pc[t] = "m_get"
    /\ log' = Logged(t, "GetStringUTFChars", NULL)
    /\ pc' = [pc EXCEPT ![t] = "m_native"]
    /\ UNCHANGED <<op, nat, recv, matches, metadata, result, hashMap, key, value,
                   i, exc, ret, rule_engine_id, heap, owner, engines, ncalls,
                   crashed, memErr, cfg>>

\* Matches* matches = Match(rule_engine_id, input);
\* the primitive mallocs the header and the identifier buffer
M_Native(t) ==
    /\ Running(t)
    /\ pc[t] = "m_native"
    /\ \E ids \in SeqsUpTo(cfg.ids, cfg.maxLen) :
          LET a == Malloc(heap, 2)
              hdr == a[1]
              buf == a[2]
          IN  /\ heap' = [heap EXCEPT ![hdr] = MatchesCell(buf, Len(ids)),
                                      ![buf] = IntsCell(ids)]
              /\ owner' = [owner EXCEPT ![hdr] = t, ![buf] = t]
              /\ matches' = [matches EXCEPT ![t] = hdr]
              /\ recv' = [recv EXCEPT ![t] = {hdr, buf}]
              /\ nat' = [nat EXCEPT ![t] = [NoNat EXCEPT !.null = FALSE, !.h = hdr,
                                                        !.ids = ids]]
              /\ log' = Logged(t, "Match", hdr)
    /\ pc' = [pc EXCEPT ![t] = "m_newarr"]
    /\ UNCHANGED <<op, metadata, result, hashMap, key, value, i, exc, ret,
                   rule_engine_id, engines, ncalls, crashed, memErr, cfg>>

\* variant: `matches` is a static shared by all calls
MatchesPtr_Static(t) == IF matches[1] # NULL THEN matches[1] ELSE matches[t]

\* the local `matches` of the running call
MatchesPtr(t) == matches[t]

\* JNI NewIntArray: a zero-filled array of the given length
NewIntArray(len) == [j \in 1 .. len |-> 0]

\* variant: the last identifier is not copied
SetIntArrayRegion_OffByOne(array, start, len, buf) ==
    [j \in 1 .. Len(array) |->
        IF j > start /\ j < start + len /\ j - start <= Len(buf)
        THEN buf[j - start] ELSE array[j]]

\* JNI SetIntArrayRegion: buf[0 .. len-1] is stored at array[start .. start+len-1]
SetIntArrayRegion(array, start, len, buf) ==
    [j \in 1 .. Len(array) |->
        IF j > start /\ j <= start + len /\ j - start <= Len(buf)
        THEN buf[j - start] ELSE array[j]]

\* jintArray result = (*env)->NewIntArray(env, matches->len);
M_NewIntArray(t) ==
    /\ Running(t)
    /\ pc[t] = "m_newarr"
    /\ LET m == MatchesPtr(t)
       IN  /\ memErr' = memErr \cup ReadErr(heap, m)
           /\ \/ /\ result' = [result EXCEPT ![t] = ArrayRef(NewIntArray(Load(heap, m).n))]
                 /\ exc' = exc
              \/ /\ cfg.hostFail
                 /\ result' = [result EXCEPT ![t] = NullRef]
                 /\ exc' = [exc EXCEPT ![t] = TRUE]
           /\ log' = Logged(t, "NewIntArray", m)
    /\ pc' = [pc EXCEPT ![t] = "m_copy"]
    /\ UNCHANGED <<op, nat, recv, matches, metadata, hashMap, key, value, i, ret,
                   rule_engine_id, heap, owner, engines, ncalls, crashed, cfg>>

\* variant: the call returns at once when NewIntArray failed
M_SetRegion_EarlyReturn(t) ==
    /\ Running(t)
    /\ pc[t] = "m_copy"
    /\ LET m == MatchesPtr(t)
           hdr == Load(heap, m)
       IN  \/ /\ ~exc[t]
              /\ result' = [result EXCEPT ![t] =
                     ArrayRef(SetIntArrayRegion(result[t].a, 0, hdr.n, Load(heap, hdr.p).d))]
              /\ memErr' = memErr \cup ReadErr(heap, m) \cup ReadErr(heap, hdr.p)
              /\ log' = Logged(t, "SetIntArrayRegion", hdr.p)
              /\ pc' = [pc EXCEPT ![t] = "m_freebuf"]
              /\ ret' = ret
           \/ /\ exc[t]
              /\ ret' = [ret EXCEPT ![t] = NullRef]
              /\ log' = Logged(t, "return", NULL)
              /\ pc' = [pc EXCEPT ![t] = "done"]
              /\ UNCHANGED <<result, memErr>>
    /\ UNCHANGED <<op, nat, recv, matches, metadata, hashMap, key, value, i, exc,
                   rule_engine_id, heap, owner, engines, ncalls, crashed, cfg>>

\* (*env)->SetIntArrayRegion(env, result, 0, matches->len, matches->matches);
\* with result == NULL and an exception pending the call is undefined
M_SetRegion(t) ==
    /\ Running(t)
    /\ pc[t] = "m_copy"
    /\ LET m == MatchesPtr(t)
           hdr == Load(heap, m)
       IN  \/ /\ ~exc[t]
              /\ result' = [result EXCEPT ![t] =
                     ArrayRef(SetIntArrayRegion(result[t].a, 0, hdr.n, Load(heap, hdr.p).d))]
              /\ memErr' = memErr \cup ReadErr(heap, m) \cup ReadErr(heap, hdr.p)
              /\ log' = Logged(t, "SetIntArrayRegion", hdr.p)
              /\ pc' = [pc EXCEPT ![t] = "m_freebuf"]
              /\ crashed' = crashed
           \/ /\ exc[t]
              /\ memErr' = memErr \cup ReadErr(heap, m)
              /\ log' = Logged(t, "SetIntArrayRegion", hdr.p)
              /\ pc' = [pc EXCEPT ![t] = "m_freebuf"]
              /\ UNCHANGED <<result, crashed>>
           \/ /\ exc[t]
              /\ crashed' = TRUE
              /\ UNCHANGED <<result, memErr, log, pc>>
    /\ UNCHANGED <<op, nat, recv, matches, metadata, hashMap, key, value, i, exc,
                   ret, rule_engine_id, heap, owner, engines, ncalls, cfg>>

\* variant: the header is freed before the buffer it points to
M_FreeBuf_HeaderFirst(t) ==
    /\ Running(t)
    /\ pc[t] = "m_freebuf"
    /\ LET m == MatchesPtr(t)
       IN  /\ memErr' = memErr \cup FreeErr(heap, owner, m, t)
           /\ heap' = Free(heap, m)
           /\ log' = Logged(t, "free", m)
    /\ pc' = [pc EXCEPT ![t] = "m_freehdr"]
    /\ UNCHANGED <<op, nat, recv, matches, metadata, result, hashMap, key, value,
                   i, exc, ret, rule_engine_id, owner, engines, ncalls, crashed, cfg>>

\* free(matches->matches);
M_FreeBuf(t) ==
    /\ Running(t)
    /\ pc[t] = "m_freebuf"
    /\ LET m == MatchesPtr(t)
           buf == Load(heap, m).p
       IN  /\ memErr' = memErr \cup ReadErr(heap, m) \cup FreeErr(heap, owner, buf, t)
           /\ heap' = Free(heap, buf)
           /\ log' = Logged(t, "free", buf)
    /\ pc' = [pc EXCEPT ![t] = "m_freehdr"]
    /\ UNCHANGED <<op, nat, recv, matches, metadata, result, hashMap, key, value,
                   i, exc, ret, rule_engine_id, owner, engines, ncalls, crashed, cfg>>

\* free(matches);
M_FreeHdr(t) ==
    /\ Running(t)
    /\ pc[t] = "m_freehdr"
    /\ LET m == MatchesPtr(t)
       IN  /\ memErr' = memErr \cup FreeErr(heap, owner, m, t)
           /\ heap' = Free(heap, m)
           /\ log' = Logged(t, "free", m)
    /\ pc' = [pc EXCEPT ![t] = "m_release"]
    /\ UNCHANGED <<op, nat, recv, matches, metadata, result, hashMap, key, value,
                   i, exc, ret, rule_engine_id, owner, engines, ncalls, crashed, cfg>>

\* (*env)->ReleaseStringUTFChars(env, jstr, input);
M_Release(t) ==
    /\ Running(t)
    /\ pc[t] = "m_release"
    /\ log' = Logged(t, "ReleaseStringUTFChars", NULL)
    /\ pc' = [pc EXCEPT ![t] = "m_return"]
    /\ UNCHANGED <<op, nat, recv, matches, metadata, result, hashMap, key, value,
                   i, exc, ret, rule_engine_id, heap, owner, engines, ncalls,
                   crashed, memErr, cfg>>

\* return result;
M_Return(t) ==
    /\ Running(t)
    /\ pc[t] = "m_return"
    /\ ret' = [ret EXCEPT ![t] = result[t]]
    /\ log' = Logged(t, "return", NULL)
    /\ pc' = [pc EXCEPT ![t] = "done"]
    /\ UNCHANGED <<op, nat, recv, matches, metadata, result, hashMap, key, value,
                   i, exc, rule_engine_id, heap, owner, engines, ncalls,
                   crashed, memErr, cfg>>

\* ----------------------------------------------------- GetRuleMetadata
CallGetRuleMetadata(t) == Enter(t, "GetRuleMetadata", "gm_native")

\* the flat array: pair j has its key at index 2j and its value at index 2j+1
RECURSIVE Flatten(_)
Flatten(pairs) ==
    IF pairs = <<>> THEN <<>>
    ELSE <<pairs[1][1], pairs[1][2]>> \o Flatten(Tail(pairs))

\* Metadata* metadata = GetRuleMetadata(rule_engine_id, rule_id);
\* NULL for an unknown rule, else a malloc'ed header, pair array and strings
GM_Native(t) ==
    /\ Running(t)
    /\ pc[t] = "gm_native"
    /\ \/ /\ metadata' = [metadata EXCEPT ![t] = NULL]
          /\ nat' = [nat EXCEPT ![t] = NoNat]
          /\ log' = Logged(t, "GetRuleMetadata", NULL)
          /\ UNCHANGED <<heap, owner, recv>>
       \/ \E pairs \in SeqsUpTo(cfg.pairs, cfg.maxPairs) :
             LET size == Len(pairs)
                 flat == Flatten(pairs)
                 a == Malloc(heap, 2 + 2 * size)
                 hdr == a[1]
                 arr == a[2]
                 strs == [j \in 1 .. 2 * size |-> a[2 + j]]
             IN  /\ heap' = [x \in Addr |->
                                IF x = hdr THEN MetadataCell(arr, size)
                                ELSE IF x = arr THEN PtrsCell(strs)
                                ELSE IF \E j \in 1 .. 2 * size : strs[j] = x
                                     THEN CharsCell(flat[CHOOSE j \in 1 .. 2 * size : strs[j] = x])
                                ELSE heap[x]]
                 /\ owner' = [x \in Addr |->
                                IF \E j \in 1 .. 2 + 2 * size : a[j] = x THEN t ELSE owner[x]]
                 /\ recv' = [recv EXCEPT ![t] = {a[j] : j \in 1 .. 2 + 2 * size}]
                 /\ metadata' = [metadata EXCEPT ![t] = hdr]
                 /\ nat' = [nat EXCEPT ![t] = [NoNat EXCEPT !.null = FALSE, !.h = hdr,
                                                           !.ids = strs, !.pairs = pairs]]
                 /\ log' = Logged(t, "GetRuleMetadata", hdr)
    /\ pc' = [pc EXCEPT ![t] = "gm_check"]
    /\ UNCHANGED <<op, matches, result, hashMap, key, value, i, exc, ret,
                   rule_engine_id, engines, ncalls, crashed, memErr, cfg>>

\* the local `metadata` of the running call
MetadataPtr(t) == metadata[t]

\* variant: the NULL test is missing
GM_Check_NoTest(t) ==
    /\ Running(t)
    /\ pc[t] = "gm_check"
    /\ pc' = [pc EXCEPT ![t] = "gm_findRuleMetadata"]
    /\ UNCHANGED <<op, log, nat, recv, matches, metadata, result, hashMap, key,
                   value, i, exc, ret, rule_engine_id, heap, owner, engines,
                   ncalls, crashed, memErr, cfg>>

\* if (metadata == NULL) { return NULL; }
GM_Check(t) ==
    /\ Running(t)
    /\ pc[t] = "gm_check"
    /\ IF MetadataPtr(t) = NULL
       THEN /\ ret' = [ret EXCEPT ![t] = NullRef]
            /\ log' = Logged(t, "return", NULL)
            /\ pc' = [pc EXCEPT ![t] = "done"]
       ELSE /\ pc' = [pc EXCEPT ![t] = "gm_findRuleMetadata"]
            /\ UNCHANGED <<ret, log>>
    /\ UNCHANGED <<op, nat, recv, matches, metadata, result, hashMap, key, value,
                   i, exc, rule_engine_id, heap, owner, engines, ncalls,
                   crashed, memErr, cfg>>

\* the class and method lookups, in source order
LookupNext == [gm_findRuleMetadata |-> "gm_constructor",
               gm_constructor |-> "gm_findHashMap",
               gm_findHashMap |-> "gm_hashMapConstructor",
               gm_hashMapConstructor |-> "gm_newHashMap",
               gm_hashMapPut |-> "gm_loop"]

\* FindClass / GetMethodID: the class or method id, or NULL with an exception
\* pending; undefined once an exception is pending
GM_Lookup(t) ==
    /\ Running(t)
    /\ pc[t] \in DOMAIN LookupNext
    /\ \/ /\ ~exc[t]
          /\ pc' = [pc EXCEPT ![t] = LookupNext[pc[t]]]
          /\ UNCHANGED <<exc, crashed>>
       \/ /\ ~exc[t]
          /\ cfg.hostFail
          /\ exc' = [exc EXCEPT ![t] = TRUE]
          /\ pc' = [pc EXCEPT ![t] = LookupNext[pc[t]]]
          /\ UNCHANGED crashed
       \/ /\ exc[t]
          /\ pc' = [pc EXCEPT ![t] = LookupNext[pc[t]]]
          /\ UNCHANGED <<exc, crashed>>
       \/ /\ exc[t]
          /\ crashed' = TRUE
          /\ UNCHANGED <<exc, pc>>
    /\ UNCHANGED <<op, log, nat, recv, matches, metadata, result, hashMap, key,
                   value, i, ret, rule_engine_id, heap, owner, engines, ncalls,
                   memErr, cfg>>

\* jobject hashMap = (*env)->NewObject(env, hashMapClass, hashMapConstructor);
GM_NewHashMap(t) ==
    /\ Running(t)
    /\ pc[t] = "gm_newHashMap"
    /\ \/ /\ ~exc[t]
          /\ hashMap' = [hashMap EXCEPT ![t] = MapRef(EmptyMap)]
          /\ log' = Logged(t, "NewObject", NULL)
          /\ pc' = [pc EXCEPT ![t] = "gm_hashMapPut"]
          /\ UNCHANGED <<exc, crashed>>
       \/ /\ ~exc[t]
          /\ cfg.hostFail
          /\ exc' = [exc EXCEPT ![t] = TRUE]
          /\ log' = Logged(t, "NewObject", NULL)
          /\ pc' = [pc EXCEPT ![t] = "gm_hashMapPut"]
          /\ UNCHANGED <<hashMap, crashed>>
       \/ /\ exc[t]
          /\ log' = Logged(t, "NewObject", NULL)
          /\ pc' = [pc EXCEPT ![t] = "gm_hashMapPut"]
          /\ UNCHANGED <<hashMap, exc, crashed>>
       \/ /\ exc[t]
          /\ crashed' = TRUE
          /\ UNCHANGED <<hashMap, exc, log, pc>>
    /\ UNCHANGED <<op, nat, recv, matches, metadata, result, key, value, i, ret,
                   rule_engine_id, heap, owner, engines, ncalls, memErr, cfg>>

\* variant: the loop stops one pair early
LoopCond_Short(idx, size) == idx < size - 1

\* for (int i = 0; i < metadata->size; i++)
LoopCond(idx, size) == idx < size

GM_Loop(t) ==
    /\ Running(t)
    /\ pc[t] = "gm_loop"
    /\ LET md == MetadataPtr(t)
       IN  /\ memErr' = memErr \cup ReadErr(heap, md)
           /\ pc' = [pc EXCEPT ![t] = IF LoopCond(i[t], Load(heap, md).n)
                                      THEN "gm_key" ELSE "gm_freeArray"]
    /\ UNCHANGED <<op, log, nat, recv, matches, metadata, result, hashMap, key,
                   value, i, exc, ret, rule_engine_id, heap, owner, engines,
                   ncalls, crashed, cfg>>

\* metadata->metadata[n], n counted from 0 as in C
Elem(h, md, n) ==
    LET arr == Load(h, Load(h, md).p).d
    IN  IF n + 1 \in DOMAIN arr THEN arr[n + 1] ELSE NULL

\* JNI NewStringUTF: the characters before the terminating NUL
RECURSIVE NewStringUTF(_)
NewStringUTF(bytes) ==
    IF bytes = <<>> \/ bytes[1] = 0 THEN <<>>
    ELSE <<bytes[1]>> \o NewStringUTF(Tail(bytes))

\* the two conversions of the loop body; slot 0 is the key, slot 1 the value
\*   jstring key   = (*env)->NewStringUTF(env, metadata->metadata[i*2]);
\*   jstring value = (*env)->NewStringUTF(env, metadata->metadata[i*2+1]);
Convert(t, slot, here, next) ==
    /\ Running(t)
    /\ pc[t] = here
    /\ LET md == MetadataPtr(t)
           s == Elem(heap, md, i[t] * 2 + slot)
           str == StringRef(NewStringUTF(Load(heap, s).d))
           reads == ReadErr(heap, md) \cup ReadErr(heap, Load(heap, md).p)
           set(r) == IF slot = 0
                     THEN /\ key' = [key EXCEPT ![t] = r]
                          /\ value' = value
                     ELSE /\ value' = [value EXCEPT ![t] = r]
                          /\ key' = key
       IN  \/ /\ ~exc[t]
              /\ set(str)
              /\ memErr' = memErr \cup reads \cup ReadErr(heap, s)
              /\ log' = Logged(t, "NewStringUTF", s)
              /\ pc' = [pc EXCEPT ![t] = next]
              /\ UNCHANGED <<exc, crashed>>
           \/ /\ ~exc[t]
              /\ cfg.hostFail
              /\ set(NullRef)
              /\ exc' = [exc EXCEPT ![t] = TRUE]
              /\ memErr' = memErr \cup reads \cup ReadErr(heap, s)
              /\ log' = Logged(t, "NewStringUTF", s)
              /\ pc' = [pc EXCEPT ![t] = next]
              /\ UNCHANGED crashed
           \/ /\ exc[t]
              /\ set(NullRef)
              /\ memErr' = memErr \cup reads
              /\ log' = Logged(t, "NewStringUTF", s)
              /\ pc' = [pc EXCEPT ![t] = next]
              /\ UNCHANGED <<exc, crashed>>
           \/ /\ exc[t]
              /\ crashed' = TRUE
              /\ UNCHANGED <<key, value, exc, memErr, log, pc>>
    /\ UNCHANGED <<op, nat, recv, matches, metadata, result, hashMap, i, ret,
                   rule_engine_id, heap, owner, engines, ncalls, cfg>>

GM_Key(t) == Convert(t, 0, "gm_key", "gm_value")
GM_Value(t) == Convert(t, 1, "gm_value", "gm_put")

\* variant: a key already present keeps its value
HashMapPutIfAbsent(m, k, v) ==
    [x \in DOMAIN m \cup {k} |-> IF x \in DOMAIN m THEN m[x] ELSE v]

\* java.util.HashMap.put: the key is bound to the new value
HashMapPut(m, k, v) == [x \in DOMAIN m \cup {k} |-> IF x = k THEN v ELSE m[x]]

\* (*env)->CallObjectMethod(env, hashMap, hashMapPut, key, value);
GM_Put(t) ==
    /\ Running(t)
    /\ pc[t] = "gm_put"
    /\ \/ /\ ~exc[t]
          /\ hashMap' = [hashMap EXCEPT ![t] = MapRef(HashMapPut(@.m, key[t].a, value[t].a))]
          /\ log' = Logged(t, "put", NULL)
          /\ pc' = [pc EXCEPT ![t] = "gm_freeKey"]
          /\ UNCHANGED <<exc, crashed>>
       \/ /\ ~exc[t]
          /\ cfg.hostFail
          /\ exc' = [exc EXCEPT ![t] = TRUE]
          /\ log' = Logged(t, "put", NULL)
          /\ pc' = [pc EXCEPT ![t] = "gm_freeKey"]
          /\ UNCHANGED <<hashMap, crashed>>
       \/ /\ exc[t]
          /\ log' = Logged(t, "put", NULL)
          /\ pc' = [pc EXCEPT ![t] = "gm_freeKey"]
          /\ UNCHANGED <<hashMap, exc, crashed>>
       \/ /\ exc[t]
          /\ crashed' = TRUE
          /\ UNCHANGED <<hashMap, exc, log, pc>>
    /\ UNCHANGED <<op, nat, recv, matches, metadata, result, key, value, i, ret,
                   rule_engine_id, heap, owner, engines, ncalls, memErr, cfg>>

\* variant: the value slot is freed in place of the key slot
GM_FreeKey_ValueSlot(t) ==
    /\ Running(t)
    /\ pc[t] = "gm_freeKey"
    /\ LET md == MetadataPtr(t)
           s == Elem(heap, md, i[t] * 2 + 1)
       IN  /\ memErr' = memErr \cup ReadErr(heap, md) \cup ReadErr(heap, Load(heap, md).p)
                               \cup FreeErr(heap, owner, s, t)
           /\ heap' = Free(heap, s)
           /\ log' = Logged(t, "free", s)
    /\ pc' = [pc EXCEPT ![t] = "gm_freeValue"]
    /\ UNCHANGED <<op, nat, recv, matches, metadata, result, hashMap, key, value,
                   i, exc, ret, rule_engine_id, owner, engines, ncalls, crashed, cfg>>

\* free(metadata->metadata[i*2]);
GM_FreeKey(t) ==
    /\ Running(t)
    /\ pc[t] = "gm_freeKey"
    /\ LET md == MetadataPtr(t)
           s == Elem(heap, md, i[t] * 2)
       IN  /\ memErr' = memErr \cup ReadErr(heap, md) \cup ReadErr(heap, Load(heap, md).p)
                               \cup FreeErr(heap, owner, s, t)
           /\ heap' = Free(heap, s)
           /\ log' = Logged(t, "free", s)
    /\ pc' = [pc EXCEPT ![t] = "gm_freeValue"]
    /\ UNCHANGED <<op, nat, recv, matches, metadata, result, hashMap, key, value,
                   i, exc, ret, rule_engine_id, owner, engines, ncalls, crashed, cfg>>

\* free(metadata->metadata[i*2+1]); and the i++ of the loop
GM_FreeValue(t) ==
    /\ Running(t)
    /\ pc[t] = "gm_freeValue"
    /\ LET md == MetadataPtr(t)
           s == Elem(heap, md, i[t] * 2 + 1)
       IN  /\ memErr' = memErr \cup ReadErr(heap, md) \cup ReadErr(heap, Load(heap, md).p)
                               \cup FreeErr(heap, owner, s, t)
           /\ heap' = Free(heap, s)
           /\ log' = Logged(t, "free", s)
    /\ i' = [i EXCEPT ![t] = @ + 1]
    /\ pc' = [pc EXCEPT ![t] = "gm_loop"]
    /\ UNCHANGED <<op, nat, recv, matches, metadata, result, hashMap, key, value,
                   exc, ret, rule_engine_id, owner, engines, ncalls, crashed, cfg>>

\* free(metadata->metadata);  the Metadata header itself is not freed
GM_FreeArray(t) ==
    /\ Running(t)
    /\ pc[t] = "gm_freeArray"
    /\ LET md == MetadataPtr(t)
           arr == Load(heap, md).p
       IN  /\ memErr' = memErr \cup ReadErr(heap, md) \cup FreeErr(heap, owner, arr, t)
           /\ heap' = Free(heap, arr)
           /\ log' = Logged(t, "free", arr)
    /\ pc' = [pc EXCEPT ![t] = "gm_wrap"]
    /\ UNCHANGED <<op, nat, recv, matches, metadata, result, hashMap, key, value,
                   i, exc, ret, rule_engine_id, owner, engines, ncalls, crashed, cfg>>

\* return (*env)->NewObject(env, ruleMetadataClass, constructor, hashMap);
GM_Wrap(t) ==
    /\ Running(t)
    /\ pc[t] = "gm_wrap"
    /\ \/ /\ ~exc[t]
          /\ ret' = [ret EXCEPT ![t] = RuleMetadataRef(hashMap[t].m)]
          /\ log' = Logged(t, "return", NULL)
          /\ pc' = [pc EXCEPT ![t] = "done"]
          /\ UNCHANGED <<exc, crashed>>
       \/ /\ ~exc[t]
          /\ cfg.hostFail
          /\ ret' = [ret EXCEPT ![t] = NullRef]
          /\ exc' = [exc EXCEPT ![t] = TRUE]
          /\ log' = Logged(t, "return", NULL)
          /\ pc' = [pc EXCEPT ![t] = "done"]
          /\ UNCHANGED crashed
       \/ /\ exc[t]
          /\ ret' = [ret EXCEPT ![t] = NullRef]
          /\ log' = Logged(t, "return", NULL)
          /\ pc' = [pc EXCEPT ![t] = "done"]
          /\ UNCHANGED <<exc, crashed>>
       \/ /\ exc[t]
          /\ crashed' = TRUE
          /\ UNCHANGED <<ret, exc, log, pc>>
    /\ UNCHANGED <<op, nat, recv, matches, metadata, result, hashMap, key, value,
                   i, rule_engine_id, heap, owner, engines, ncalls, memErr, cfg>>

\* ------------------------------------------------------------------ Next
Next ==
    \E t \in Threads :
        \/ CallNewRuleEngine(t)
        \/ NE_GetChars(t)
        \/ NE_Native(t)
        \/ NE_Release(t)
        \/ NE_Return(t)
        \/ CallMatch(t)
        \/ M_GetChars(t)
        \/ M_Native(t)
        \/ M_NewIntArray(t)
        \/ M_SetRegion(t)
        \/ M_FreeBuf(t)
        \/ M_FreeHdr(t)
        \/ M_Release(t)
        \/ M_Return(t)
        \/ CallGetRuleMetadata(t)
        \/ GM_Native(t)
        \/ GM_Check(t)
        \/ GM_Lookup(t)
        \/ GM_NewHashMap(t)
        \/ GM_Loop(t)
        \/ GM_Key(t)
        \/ GM_Value(t)
        \/ GM_Put(t)
        \/ GM_FreeKey(t)
        \/ GM_FreeValue(t)
        \/ GM_FreeArray(t)
        \/ GM_Wrap(t)
        \/ Leave(t)

Spec == Init /\ [][Next]_vars
SpecConc == InitConc /\ [][Next]_vars
\* ======================================================================
\* Properties
\* ======================================================================
Done(t, name) == pc[t] = "done" /\ op[t] = name

\* native allocations the current call of t received and has not freed
Outstanding(t) == {a \in recv[t] : Live(heap, a) /\ owner[a] = t}

\* the host sees the returned value only when no exception is pending
Returned(t) == ~exc[t]

\* a native string without its terminating NUL
StripNul(bytes) == SubSeq(bytes, 1, Len(bytes) - 1)

FreeIdx(l, a) == {j \in 1 .. Len(l) : l[j] = Ev("free", a)}
ReadIdx(l, a) == {j \in 1 .. Len(l) : l[j] = Ev("NewStringUTF", a)}

IsPrefix(p, q) == Len(p) <= Len(q) /\ \A j \in 1 .. Len(p) : p[j] = q[j]

\* C1: when a Match call returns, every allocation the native Match handed to
\* it (header and identifier buffer) has been freed, each exactly once, also
\* when NewIntArray failed.
C1_MatchNoLeak ==
    \A t \in Threads :
        Done(t, "Match") =>
            /\ Outstanding(t) = {}
            /\ \A a \in recv[t] : CountAt(log[t], "free", a) = 1

C1_Witness ==
    \E t \in Threads :
        /\ Done(t, "Match")
        /\ exc[t]
        /\ Cardinality(recv[t]) = 2
        /\ Len(nat[t].ids) > 0

\* C2: when a GetRuleMetadata call returns, no allocation the native
\* GetRuleMetadata handed to it (strings, pair array, header) is outstanding.
C2_MetadataNoLeak ==
    \A t \in Threads : Done(t, "GetRuleMetadata") => Outstanding(t) = {}

\* C3: a NULL native result is returned as absent at once (no host object
\* created, nothing freed, no exception), and a non-NULL native result that
\* is returned to the host is a present mapping, empty when size is 0.
C3_AbsentIsNull ==
    \A t \in Threads :
        Done(t, "GetRuleMetadata") =>
            /\ nat[t].null =>
                  /\ ret[t].k = "null"
                  /\ ~exc[t]
                  /\ Names(log[t]) = <<"GetRuleMetadata", "return">>
            /\ (~nat[t].null /\ Returned(t)) =>
                  /\ ret[t].k = "RuleMetadata"
                  /\ (nat[t].pairs = <<>> => DOMAIN ret[t].m = {})

C3_Witness ==
    \E t \in Threads :
        /\ Done(t, "GetRuleMetadata")
        /\ nat[t].null
        /\ ncalls > 1

\* C4: the array Match returns to the host holds exactly the identifiers of
\* the native match-set, in order; a zero-count match-set is an empty array,
\* not null.
C4_MatchArray ==
    \A t \in Threads :
        (Done(t, "Match") /\ Returned(t)) =>
            /\ ret[t].k = "intArray"
            /\ Len(ret[t].a) = Len(nat[t].ids)
            /\ \A j \in 1 .. Len(nat[t].ids) : ret[t].a[j] = nat[t].ids[j]

C4_Witness ==
    \E t \in Threads :
        /\ Done(t, "Match")
        /\ Returned(t)
        /\ nat[t].ids = <<99, 7>>

\* C5 as stated: the returned mapping has as many entries as the native
\* result has pairs, and every key maps to the value paired with it.
C5_Original ==
    \A t \in Threads :
        (Done(t, "GetRuleMetadata") /\ ~nat[t].null /\ Returned(t)) =>
            LET ps == nat[t].pairs
            IN  /\ Cardinality(DOMAIN ret[t].m) = Len(ps)
                /\ \A j \in 1 .. Len(ps) :
                      /\ StripNul(ps[j][1]) \in DOMAIN ret[t].m
                      /\ ret[t].m[StripNul(ps[j][1])] = StripNul(ps[j][2])

\* C5 (amended): the returned mapping has one entry per distinct native key,
\* every entry's value is a value paired with that key in the native array,
\* and when the native keys are pairwise distinct the entry count equals
\* size and every key maps to the value paired with it.
C5_EntriesMatchPairs ==
    \A t \in Threads :
        (Done(t, "GetRuleMetadata") /\ ~nat[t].null /\ Returned(t)) =>
            LET ps == nat[t].pairs
                ks == {StripNul(ps[j][1]) : j \in 1 .. Len(ps)}
                distinct == \A j, l \in 1 .. Len(ps) : ps[j][1] = ps[l][1] => j = l
            IN  /\ DOMAIN ret[t].m = ks
                /\ \A k \in ks : \E j \in 1 .. Len(ps) :
                      /\ StripNul(ps[j][1]) = k
                      /\ ret[t].m[k] = StripNul(ps[j][2])
                /\ distinct =>
                      /\ Cardinality(DOMAIN ret[t].m) = Len(ps)
                      /\ \A j \in 1 .. Len(ps) :
                            ret[t].m[StripNul(ps[j][1])] = StripNul(ps[j][2])

C5_Witness ==
    \E t \in Threads :
        /\ Done(t, "GetRuleMetadata")
        /\ Returned(t)
        /\ Len(nat[t].pairs) = 2
        /\ nat[t].pairs[1][1] # nat[t].pairs[2][1]

\* C6: pairs are converted in ascending index order (key 2i before value
\* 2i+1 before pair i+1), and a key present in several pairs maps to the
\* value of its highest-indexed pair.
C6_LastPairWins ==
    \A t \in Threads :
        (op[t] = "GetRuleMetadata" /\ ~nat[t].null) =>
            LET ps == nat[t].pairs
                strs == nat[t].ids
                conv == SelectSeq(log[t], LAMBDA e : e[1] = "NewStringUTF")
            IN  /\ Len(conv) <= Len(strs)
                /\ \A j \in 1 .. Len(conv) : conv[j][2] = strs[j]
                /\ (pc[t] = "done" /\ Returned(t)) =>
                      \A k \in DOMAIN ret[t].m :
                         LET js == {j \in 1 .. Len(ps) : StripNul(ps[j][1]) = k}
                             last == CHOOSE j \in js : \A l \in js : l <= j
                         IN  ret[t].m[k] = StripNul(ps[last][2])

C6_Witness ==
    \E t \in Threads :
        /\ Done(t, "GetRuleMetadata")
        /\ Returned(t)
        /\ Len(nat[t].pairs) = 2
        /\ nat[t].pairs[1][1] = nat[t].pairs[2][1]
        /\ nat[t].pairs[1][2] # nat[t].pairs[2][2]

\* C7: a NewRuleEngine call invokes the create primitive once, returns the
\* integer it produced (handle or sentinel), acquires and releases the string
\* view once and frees nothing; the engine table changes only inside the
\* create primitive, and only by gaining a handle.
C7_AtReturn ==
    \A t \in Threads :
        Done(t, "NewRuleEngine") =>
            /\ Count(log[t], "NewRuleEngine") = 1
            /\ Count(log[t], "GetStringUTFChars") = 1
            /\ Count(log[t], "ReleaseStringUTFChars") = 1
            /\ Count(log[t], "free") = 0
            /\ ret[t].k = "int"
            /\ ret[t].n = nat[t].h

C7_TableStep ==
    /\ engines \subseteq engines'
    /\ engines' # engines => \E t \in Threads : pc[t] = "ne_native"

C7_CreatePassThrough == [] C7_AtReturn /\ [][C7_TableStep]_vars

C7_Witness ==
    \E t \in Threads :
        /\ Done(t, "NewRuleEngine")
        /\ ret[t].n = FailedHandle
        /\ engines # {}

\* C8: in a GetRuleMetadata call with a non-NULL native result no string is
\* freed before NewStringUTF has read it, none is freed twice, and when the
\* call returns each of the 2*size strings has been freed exactly once, also
\* when a host-side step failed.
C8_StringsFreedOnce ==
    \A t \in Threads :
        (op[t] = "GetRuleMetadata" /\ ~nat[t].null) =>
            LET strs == nat[t].ids
            IN  /\ \A j \in 1 .. Len(strs) :
                      /\ Cardinality(FreeIdx(log[t], strs[j])) <= 1
                      /\ \A f \in FreeIdx(log[t], strs[j]) :
                            \E r \in ReadIdx(log[t], strs[j]) : r < f
                /\ pc[t] = "done" =>
                      /\ \A j \in 1 .. Len(strs) :
                            Cardinality(FreeIdx(log[t], strs[j])) = 1
                      /\ Cardinality({f \in 1 .. Len(log[t]) :
                             /\ log[t][f][1] = "free"
                             /\ \E j \in 1 .. Len(strs) : strs[j] = log[t][f][2]})
                           = 2 * Len(nat[t].pairs)

C8_Witness ==
    \E t \in Threads :
        /\ Done(t, "GetRuleMetadata")
        /\ exc[t]
        /\ key[t].k = "null"
        /\ Len(nat[t].pairs) = 2

\* C9: a Match call makes its calls in the source order (view, native Match,
\* NewIntArray, SetIntArrayRegion, free buffer, free header, release, return);
\* the buffer is freed before the header, and no freed cell is read or freed
\* again.
MatchOrder ==
    <<"GetStringUTFChars", "Match", "NewIntArray", "SetIntArrayRegion",
      "free", "free", "ReleaseStringUTFChars", "return">>

C9_MatchStepOrder ==
    \A t \in Threads :
        op[t] = "Match" =>
            /\ IsPrefix(Names(log[t]), MatchOrder)
            /\ Len(log[t]) >= 5 => log[t][5][2] \in recv[t] \ {nat[t].h}
            /\ Len(log[t]) >= 6 => log[t][6][2] = nat[t].h
            /\ pc[t] = "done" => Names(log[t]) = MatchOrder
            /\ memErr = {}

C9_Witness ==
    \E t \in Threads :
        /\ Done(t, "Match")
        /\ Returned(t)
        /\ Len(nat[t].ids) = 2

\* C10: with calls of several threads interleaved, every free made by a call
\* targets an allocation that call received, no allocation is freed twice or
\* by another call, and none is read after being freed; a call releases only
\* a string view it acquired.
C10_CallLocal ==
    /\ memErr = {}
    /\ \A t \in Threads :
          /\ \A j \in 1 .. Len(log[t]) :
                log[t][j][1] = "free" => log[t][j][2] \in recv[t]
          /\ Count(log[t], "ReleaseStringUTFChars") <= Count(log[t], "GetStringUTFChars")
    /\ \A t, u \in Threads : t # u => Outstanding(t) \cap Outstanding(u) = {}

C10_Witness ==
    /\ pc[1] = "m_freehdr"
    /\ pc[2] = "gm_freeValue"
    /\ Cardinality(Outstanding(1)) = 1
    /\ Cardinality(Outstanding(2)) = 3
====
